---------------------------- MODULE Spec2Model ----------------------------
(***************************************************************************)
(* BitBucketClient (app/lib/package_control/clients/bitbucket_client.py).  *)
(*                                                                         *)
(* A Python string is a sequence of tokens; a token stands for one         *)
(* character ("/", "#", ".", "X", "\n", "o", "r", "b") or for a fixed run  *)
(* of characters that the patterns of the client only ever consume whole   *)
(* ("https", "bitbucket", "src", "tags", "1.0.0", ...).  Python's None is  *)
(* the value None below and a string s is Some(s).                         *)
(***************************************************************************)
EXTENDS Integers, Sequences, FiniteSets

(***************************************************************************)
(* Bounds of the model.                                                    *)
(***************************************************************************)
MaxTags == 3        \* tag entries the server returns over one walk
MaxEntries == 2     \* directory entries the server returns over one walk
MaxPages == 2       \* pages of one walk
MaxReleases == 1    \* largest max_releases setting

None == [isNone |-> TRUE, val |-> <<>>]
Some(s) == [isNone |-> FALSE, val |-> s]

Range(s) == {s[i] : i \in 1..Len(s)}

Min(a, b) == IF a <= b THEN a ELSE b

(***************************************************************************)
(* Regular expressions of the client, on token sequences.                  *)
(***************************************************************************)

\* Index of the first token at or after i that is in Stop (Len(s)+1 if none):
\* where a greedy [^...]+ that starts at i ends.
RECURSIVE RunEnd(_, _, _)
RunEnd(s, i, Stop) ==
    IF i > Len(s) \/ s[i] \in Stop THEN i ELSE RunEnd(s, i + 1, Stop)

\* Tokens of one character; "." of a pattern matches each of them but "\n".
OneChar == {"/", "#", ".", "X", "\n", "o", "r", "b"}

\* 'https?://bitbucket.org' at the start of url (the dot is not escaped).
SchemeHostMatch(url) ==
    /\ Len(url) >= 5
    /\ url[1] \in {"http", "https"}
    /\ url[2] = "://"
    /\ url[3] = "bitbucket"
    /\ url[4] \in OneChar \ {"\n"}
    /\ url[5] = "org"

PathOf(url) == SubSeq(url, 6, Len(url))

\* '/([^/]+/[^STOP]+)' at the start of p, STOP being "/" or "#/": the index
\* just past the group, 0 when there is no match.
UserRepoEnd(p, Stop) ==
    LET a == RunEnd(p, 2, {"/"})
        b == RunEnd(p, a + 1, Stop)
    IN  IF /\ Len(p) >= 1 /\ p[1] = "/"
           /\ a > 2 /\ a <= Len(p)
           /\ b > a + 1
        THEN b ELSE 0

\* What '/?$' matches: the end of the string, also before a final newline.
EndTails == {<<>>, <<"/">>, <<"/", "\n">>}

\* What '/?#tags$' matches.
TagsTails == {<<"#", "tags">>, <<"/", "#", "tags">>,
              <<"#", "tags", "\n">>, <<"/", "#", "tags", "\n">>}

\* re.match('https?://bitbucket.org/([^/]+/[^#/]+)/?#tags$', url): group 1,
\* or None.
TagsMatch(url) ==
    IF ~SchemeHostMatch(url) THEN None
    ELSE LET p == PathOf(url)
             b == UserRepoEnd(p, {"/", "#"})
         IN  IF b # 0 /\ SubSeq(p, b, Len(p)) \in TagsTails
             THEN Some(SubSeq(p, 2, b - 1)) ELSE None

\* re.match('https?://bitbucket.org/([^/]+/[^/]+)/?$', url): group 1, or None.
RepoMatch(url) ==
    IF ~SchemeHostMatch(url) THEN None
    ELSE LET p == PathOf(url)
             b == UserRepoEnd(p, {"/"})
         IN  IF b # 0 /\ SubSeq(p, b, Len(p)) \in EndTails
             THEN Some(SubSeq(p, 2, b - 1)) ELSE None

\* re.match('https?://bitbucket.org/([^/]+/[^/]+)/src/([^/]+)/?$', url):
\* <<group 1, group 2>>, or <<None, None>>.
BranchMatch(url) ==
    IF ~SchemeHostMatch(url) THEN <<None, None>>
    ELSE LET p == PathOf(url)
             b == UserRepoEnd(p, {"/"})
             t == SubSeq(p, b, Len(p))
             c == RunEnd(t, 4, {"/"})
         IN  IF /\ b # 0
                /\ Len(t) >= 4
                /\ t[1] = "/" /\ t[2] = "src" /\ t[3] = "/"
                /\ c > 4
                /\ SubSeq(t, c, Len(t)) \in EndTails
             THEN <<Some(SubSeq(p, 2, b - 1)), Some(SubSeq(t, 4, c - 1))>>
             ELSE <<None, None>>

\* _user_repo_branch(url): (user/repo, branch), branch None for a repository
\* URL, (None, None) when neither pattern matches.
UserRepoBranch(url) ==
    IF ~BranchMatch(url)[1].isNone THEN BranchMatch(url)
    ELSE IF ~RepoMatch(url).isNone THEN <<RepoMatch(url), None>>
    ELSE <<None, None>>

(***************************************************************************)
(* Strings the client builds.                                              *)
(***************************************************************************)

\* '%s' % x: the text of a string, "None" for None.
Fmt(x) == IF x.isNone THEN <<"None">> ELSE x.val

\* _make_api_url(user_repo, suffix)
MakeApiUrl(user_repo, suffix) ==
    <<"https://api.bitbucket.org/2.0/repositories/">> \o user_repo \o suffix

\* url_pattern % (user_repo, ref), url_pattern = 'https://bitbucket.org/%s/get/%s.zip'
ZipUrl(user_repo, ref) ==
    <<"https://bitbucket.org/">> \o user_repo \o <<"/get/">> \o ref \o <<".zip">>

\* Number of characters a token stands for.
TokLen(t) ==
    CASE t \in {"2021-05-06", "2021-05-07"} -> 10
      [] t = "12:00:00" -> 8
      [] t = "+00:00" -> 6
      [] OTHER -> 1

\* s[0:n], for an n that falls between two tokens of s.
RECURSIVE Slice(_, _)
Slice(s, n) ==
    IF s = <<>> \/ TokLen(Head(s)) > n THEN <<>>
    ELSE <<Head(s)>> \o Slice(Tail(s), n - TokLen(Head(s)))

\* date[0:19].replace('T', ' ')
Timestamp(date) ==
    LET s == Slice(date, 19)
    IN  [i \in 1..Len(s) |-> IF s[i] = "T" THEN " " ELSE s[i]]

\* re.sub(r'[\-: ]', '.', timestamp)
Dotted(t) ==
    CASE t = "2021-05-06" -> "2021.05.06"
      [] t = "2021-05-07" -> "2021.05.07"
      [] t = "12:00:00" -> "12.00.00"
      [] t = " " -> "."
      [] OTHER -> t

PseudoVersion(timestamp) == [i \in 1..Len(timestamp) |-> Dotted(timestamp[i])]

(***************************************************************************)
(* The dict tags_list: its items in insertion order, each <<name, date>>.  *)
(***************************************************************************)
DictKeys(d) == [i \in 1..Len(d) |-> d[i][1]]

DictHas(d, k) == \E i \in 1..Len(d) : d[i][1] = k

DictGet(d, k) == d[CHOOSE i \in 1..Len(d) : d[i][1] = k][2]

\* d[k] = v: a new key goes last, a known key keeps its place.
DictSet(d, k, v) ==
    IF DictHas(d, k)
    THEN [i \in 1..Len(d) |-> IF d[i][1] = k THEN <<k, v>> ELSE d[i]]
    ELSE Append(d, <<k, v>>)

\* for tag in values: tags_list[tag['name']] = tag['target']['date'][0:19].replace('T', ' ')
RECURSIVE MergeTags(_, _)
MergeTags(d, values) ==
    IF values = <<>> THEN d
    ELSE MergeTags(DictSet(d, Head(values).name, Timestamp(Head(values).date)),
                   Tail(values))

(***************************************************************************)
(* versions.version_process and versions.version_sort.                     *)
(***************************************************************************)
SemVers == {"1.0.0", "2.0.0"}

SemVerValid(s) == Len(s) = 1 /\ s[1] \in SemVers

\* Place of a version in the order of versions.
SemVerRank(v) ==
    CASE v = <<"1.0.0">> -> 1
      [] v = <<"2.0.0">> -> 2

StartsWith(s, p) == Len(s) >= Len(p) /\ SubSeq(s, 1, Len(p)) = p

\* The entry of one tag name: <<[version, prefix]>>, or <<>> when the name is
\* filtered out or is no valid version.
VersionInfo(name, filter_prefix) ==
    LET filtering == ~filter_prefix.isNone /\ filter_prefix.val # <<>>
        fp == filter_prefix.val
        stripped == IF StartsWith(name, <<"v">>) THEN Tail(name) ELSE name
        check == IF filtering THEN SubSeq(name, Len(fp) + 1, Len(name))
                 ELSE stripped
        prefix == IF filtering THEN fp
                  ELSE IF stripped # name THEN <<"v">> ELSE <<>>
    IN  IF filtering /\ ~StartsWith(name, fp) THEN <<>>
        ELSE IF ~SemVerValid(check) THEN <<>>
        ELSE <<[version |-> check, prefix |-> prefix]>>

RECURSIVE VersionProcess(_, _)
VersionProcess(names, filter_prefix) ==
    IF names = <<>> THEN <<>>
    ELSE VersionInfo(Head(names), filter_prefix)
           \o VersionProcess(Tail(names), filter_prefix)

\* version_sort(infos, reverse=True): descending, entries of one version in
\* their given order.
RECURSIVE SortFrom(_, _)
SortFrom(infos, rank) ==
    IF rank = 0 THEN <<>>
    ELSE SelectSeq(infos, LAMBDA e : SemVerRank(e.version) = rank)
           \o SortFrom(infos, rank - 1)

VersionSort(infos) == SortFrom(infos, Cardinality(SemVers))

(***************************************************************************)
(* download_info, tag mode: lines 132-151.                                 *)
(***************************************************************************)

\* Mutant: the empty result of version_process is not told apart.
NoTagInfo_Never(tag_info) == FALSE

\* if not tag_info
NoTagInfo(tag_info) == tag_info = <<>>

\* Mutant: no version counts as used.
AlreadyUsed_Never(version, used_versions) == FALSE

\* if version in used_versions
AlreadyUsed(version, used_versions) == version \in used_versions

\* Mutant: > for >=.
ReachedMax_OneLate(max_releases, used_versions) ==
    max_releases > 0 /\ Cardinality(used_versions) > max_releases

\* if max_releases > 0 and len(used_versions) >= max_releases
ReachedMax(max_releases, used_versions) ==
    max_releases > 0 /\ Cardinality(used_versions) >= max_releases

\* The release of one entry of tag_info.
Release(info, user_repo, tags_list) ==
    LET tag == info.prefix \o info.version
    IN  [url |-> ZipUrl(user_repo, tag),
         version |-> info.version,
         date |-> DictGet(tags_list, tag)]

\* for info in tag_info: ...
RECURSIVE Releases(_, _, _, _, _)
Releases(tag_info, used_versions, max_releases, user_repo, tags_list) ==
    IF tag_info = <<>> THEN <<>>
    ELSE LET info == Head(tag_info)
             used == used_versions \cup {info.version}
         IN  IF AlreadyUsed(info.version, used_versions)
             THEN Releases(Tail(tag_info), used_versions, max_releases,
                           user_repo, tags_list)
             ELSE IF ReachedMax(max_releases, used)
             THEN <<Release(info, user_repo, tags_list)>>
             ELSE <<Release(info, user_repo, tags_list)>>
                    \o Releases(Tail(tag_info), used, max_releases,
                                user_repo, tags_list)

\* self.settings.get('max_releases', 0)
SettingsGet(s) == IF s.has_max_releases THEN s.max_releases ELSE 0


(***************************************************************************)
(* repo_info and _readme_url helpers.                                      *)
(***************************************************************************)
Error(type, msg) == [type |-> type, msg |-> msg]

\* repo_info['mainbranch'].get('name', 'master'): the branch, or the error
\* the expression raises.
MainBranchName(repo_json) ==
    LET mb == repo_json.mainbranch
    IN  IF ~mb.present
        THEN [err |-> <<Error("KeyError", <<"'mainbranch'">>)>>, branch |-> None]
        ELSE IF mb.isNull
        THEN [err |-> <<Error("AttributeError",
                              <<"'NoneType' object has no attribute 'get'">>)>>,
              branch |-> None]
        ELSE IF ~mb.hasName
        THEN [err |-> <<>>, branch |-> Some(<<"master">>)]
        ELSE [err |-> <<>>, branch |-> mb.name]

_readme_filenames ==
    << <<"readme">>, <<"readme", ".txt">>, <<"readme", ".md">>,
       <<"readme", ".mkd">>, <<"readme", ".mdown">>, <<"readme", ".markdown">>,
       <<"readme", ".textile">>, <<"readme", ".creole">>, <<"readme", ".rst">> >>

\* str.lower(), token by token.
LowerTok(t) ==
    CASE t \in {"README", "Readme"} -> "readme"
      [] t = ".MD" -> ".md"
      [] t = ".RST" -> ".rst"
      [] OTHER -> t

Lower(path) == [i \in 1..Len(path) |-> LowerTok(path[i])]

\* Mutant: the path is compared as it is spelled.
IsReadme_CaseSensitive(path) == path \in Range(_readme_filenames)

\* if entry['path'].lower() in _readme_filenames
IsReadme(path) == Lower(path) \in Range(_readme_filenames)

\* 'https://bitbucket.org/%s/raw/%s/%s' % (user_repo, branch, entry['path'])
RawUrl(user_repo, branch, path) ==
    <<"https://bitbucket.org/">> \o user_repo \o <<"/raw/">> \o Fmt(branch)
        \o <<"/">> \o path

\* The first entry of values that is a readme: <<path>>, or <<>>.
RECURSIVE FirstReadme(_)
FirstReadme(values) ==
    IF values = <<>> THEN <<>>
    ELSE IF IsReadme(Head(values).path) THEN <<Head(values).path>>
    ELSE FirstReadme(Tail(values))

\* 'HTTP error 404' in str(e)
Has404(msg) == \E i \in 1..Len(msg) : msg[i] = "HTTP error 404"

\* Mutant: every exception that mentions the 404 is swallowed.
Swallowed_AnyType(err) == Has404(err.msg)

\* except (DownloaderException) as e: if 'HTTP error 404' not in str(e): raise
Swallowed(err) == err.type = "DownloaderException" /\ Has404(err.msg)

\* Mutant: the link to the next page is not followed.
NextUrl_Never(json) == None

\* tags_json['next'] if 'next' in tags_json else None
NextUrl(json) == json.next

\* Mutant: the repository info is fetched for every URL.
NeedsRepoInfo_Always(branch) == TRUE

\* if branch is None (line 159)
NeedsRepoInfo(branch) == branch.isNone

\* Mutant: the exception is wrapped in one of the client.
Raise_Wrapped(err) == Some(Error("ClientException", err.msg))

\* An exception that leaves the operation: nothing is returned.
Raise(err) == Some(err)

(***************************************************************************)
(* What the server and the transport may answer.                           *)
(***************************************************************************)
Dates == { <<day, "T", "12:00:00", "+00:00">> : day \in {"2021-05-06", "2021-05-07"} }

Date1 == <<"2021-05-06", "T", "12:00:00", "+00:00">>

TagNames == { <<"1.0.0">>, <<"v", "1.0.0">>, <<"v", "2.0.0">>, <<"junk">> }

TagEntries ==
    { [name |-> n, date |-> Date1] : n \in TagNames }
      \cup { [name |-> <<"v", "1.0.0">>, date |-> d] : d \in Dates }

Paths == { <<"README", ".MD">>, <<"readme", ".rst">>, <<"setup.py">> }

DirEntries == { [path |-> q] : q \in Paths }

RECURSIVE SeqsUpTo(_, _)
SeqsUpTo(S, n) ==
    IF n = 0 THEN {<<>>}
    ELSE LET R == SeqsUpTo(S, n - 1)
         IN  R \cup {Append(r, x) : r \in {q \in R : Len(q) = n - 1}, x \in S}

PageNo == <<"2", "3", "4", "5", "6", "7", "8", "9">>

FetchErrors ==
    { Error("DownloaderException", <<"HTTP error 404", " downloading">>),
      Error("DownloaderException", <<"HTTP error 500", " downloading">>),
      Error("ClientException", <<"HTTP error 404", " parsing">>) }


MainBranches ==
    { [present |-> FALSE, isNull |-> FALSE, hasName |-> FALSE, name |-> None],
      [present |-> TRUE, isNull |-> TRUE, hasName |-> FALSE, name |-> None],
      [present |-> TRUE, isNull |-> FALSE, hasName |-> FALSE, name |-> None],
      [present |-> TRUE, isNull |-> FALSE, hasName |-> TRUE, name |-> None],
      [present |-> TRUE, isNull |-> FALSE, hasName |-> TRUE,
       name |-> Some(<<"main">>)] }

RepoJsons ==
    { [mainbranch |-> mb, name |-> <<"r">>, description |-> None,
       website |-> Some(<<>>), has_issues |-> FALSE,
       owner |-> [nickname |-> None, username |-> Some(<<"o">>)]]
        : mb \in MainBranches }
      \cup
    { [mainbranch |-> mb, name |-> <<"r">>, description |-> Some(<<"d">>),
       website |-> Some(<<"w">>), has_issues |-> TRUE,
       owner |-> [nickname |-> Some(<<"nick">>), username |-> Some(<<"o">>)]]
        : mb \in MainBranches }

NoJson == CHOOSE r \in RepoJsons : ~r.mainbranch.present /\ ~r.has_issues

BranchJsons == { [target |-> [date |-> d]] : d \in Dates }

(***************************************************************************)
(* Arguments of the calls.                                                 *)
(***************************************************************************)
BitBucket(path) == <<"https", "://", "bitbucket", ".", "org">> \o path

Urls ==
    { BitBucket(<<"/", "o", "/", "r">>),
      BitBucket(<<"/", "o", "/", "r", "/">>),
      BitBucket(<<"/", "o", "/", "r", "/", "src", "/", "b">>),
      BitBucket(<<"/", "o", "/", "r", "#", "tags">>),
      BitBucket(<<"/", "o", "/", "r", "/", "src">>),
      BitBucket(<<"/", "o", "/", "r", "/", "src", "/", "b", "/", "o">>),
      BitBucket(<<"/", "o">>),
      BitBucket(<<>>),
      <<"http", "://", "bitbucket", ".", "org", "/", "o", "/", "r">>,
      <<"https", "://", "bitbucket", "X", "org", "/", "o", "/", "r">>,
      <<"ftp", "://", "bitbucket", ".", "org", "/", "o", "/", "r">>,
      <<"https", "://", "github", ".", "com", "/", "o", "/", "r">> }

TagPrefixes == { None, Some(<<"v">>) }

Settings ==
    { [has_max_releases |-> FALSE, max_releases |-> 0] }
      \cup { [has_max_releases |-> TRUE, max_releases |-> n] : n \in 0..MaxReleases }

(***************************************************************************)
(* Values an operation returns.                                            *)
(***************************************************************************)
Pending == [kind |-> "pending", val |-> <<>>]
PyNone == [kind |-> "None", val |-> <<>>]
PyFalse == [kind |-> "False", val |-> <<>>]
PyList(items) == [kind |-> "list", val |-> items]
PyStr(str) == [kind |-> "str", val |-> str]
PyDict(d) == [kind |-> "dict", val |-> <<d>>]

(***************************************************************************)
(* State.                                                                  *)
(***************************************************************************)
VARIABLES
    settings,       \* self.settings
    op,             \* the operation called
    pc,             \* where it stands: the fetch_json call it makes next
    url,            \* its arguments
    tag_prefix,
    prefer_cached,
    user_repo,      \* its locals
    branch,
    pending,        \* the URL of the fetch_json call it makes next
    tags_list,
    repo_json,      \* repo_info's local repo_info
    fetched,        \* the fetch_json calls made, in order
    responses,      \* what each of them answered
    result,         \* the value returned
    raised          \* the exception that left the operation

vars == <<settings, op, pc, url, tag_prefix, prefer_cached, user_repo, branch,
          pending, tags_list, repo_json, fetched, responses, result, raised>>

Init ==
    /\ settings \in Settings
    /\ op = "none"
    /\ pc = "idle"
    /\ url = <<>>
    /\ tag_prefix = None
    /\ prefer_cached = FALSE
    /\ user_repo = <<>>
    /\ branch = None
    /\ pending = <<>>
    /\ tags_list = <<>>
    /\ repo_json = NoJson
    /\ fetched = <<>>
    /\ responses = <<>>
    /\ result = Pending
    /\ raised = None

\* The call fetch_json(pending, prefer_cached) and its answer.
Fetch(answer) ==
    /\ fetched' = Append(fetched, [url |-> pending, prefer_cached |-> prefer_cached])
    /\ responses' = Append(responses, answer)

Failed(err) == [ok |-> FALSE, kind |-> "error", json |-> <<>>, err |-> <<err>>]
Answered(kind, json) == [ok |-> TRUE, kind |-> kind, json |-> <<json>>, err |-> <<>>]

\* The pages answered so far.
PagesOf(rs) == SelectSeq(rs, LAMBDA r : r.kind = "page")

\* Entries the pages hold.
RECURSIVE TotalValues(_)
TotalValues(ps) ==
    IF ps = <<>> THEN 0
    ELSE Len(Head(ps).json[1].values) + TotalValues(Tail(ps))

\* The pages the server may answer next in a walk that started at first: any
\* of the sequences Values that keeps the walk within max entries, with or
\* without a link to a further page; a page that links to a further page
\* holds an entry.
Pages(Values, max, first) ==
    LET seen == PagesOf(responses)
        left == max - TotalValues(seen)
        link == Some(first \o <<"&page=", PageNo[Len(seen) + 1]>>)
    IN  { [values |-> v, next |-> None] : v \in {q \in Values : Len(q) <= left} }
          \cup
        { [values |-> v, next |-> link] :
            v \in {q \in Values : /\ Len(seen) + 1 < MaxPages
                                  /\ q # <<>>
                                  /\ Len(q) <= left} }

TagValues == SeqsUpTo(TagEntries, MaxTags)
DirValues == SeqsUpTo(DirEntries, MaxEntries)

TagsUrl(ur) == MakeApiUrl(ur, <<"/refs/tags?pagelen=100">>)
BranchUrl(ur, br) == MakeApiUrl(ur, <<"/refs/branches/">> \o Fmt(br))
ListingUrl(ur, br) == MakeApiUrl(ur, <<"/src/">> \o Fmt(br) \o <<"/?pagelen=100">>)


(***************************************************************************)
(* Operations.  A call runs up to its first fetch_json; each further       *)
(* action is one answer of fetch_json and the code that follows it, up to  *)
(* the next fetch_json or to the end of the operation.                     *)
(***************************************************************************)

\* download_info(url, tag_prefix), lines 112-123 and 153-163.
download_info(u, tp) ==
    /\ pc = "idle"
    /\ op' = "download_info"
    /\ url' = u
    /\ tag_prefix' = tp
    /\ IF ~TagsMatch(u).isNone
       THEN /\ user_repo' = TagsMatch(u).val
            /\ branch' = None
            /\ pending' = TagsUrl(TagsMatch(u).val)
            /\ pc' = "tags"
            /\ result' = Pending
       ELSE LET urb == UserRepoBranch(u)
            IN  IF urb[1].isNone
                THEN /\ pc' = "done"
                     /\ result' = PyNone
                     /\ UNCHANGED <<user_repo, branch, pending>>
                ELSE /\ user_repo' = urb[1].val
                     /\ branch' = urb[2]
                     /\ result' = Pending
                     /\ IF NeedsRepoInfo(urb[2])
                        THEN /\ pc' = "repo"
                             /\ pending' = MakeApiUrl(urb[1].val, <<>>)
                        ELSE /\ pc' = "branch"
                             /\ pending' = BranchUrl(urb[1].val, urb[2])
    /\ UNCHANGED <<settings, prefer_cached, tags_list, repo_json, fetched,
                   responses, raised>>

\* download_info, lines 124-151: one round of the while loop and, after the
\* last page, the releases.
TagsFetch ==
    /\ pc = "tags"
    /\ \/ \E e \in FetchErrors :
            /\ Fetch(Failed(e))
            /\ raised' = Raise(e)
            /\ pc' = "done"
            /\ UNCHANGED <<pending, tags_list, result>>
       \/ \E tags_json \in Pages(TagValues, MaxTags, TagsUrl(user_repo)) :
            LET merged == MergeTags(tags_list, tags_json.values)
                tags_url == NextUrl(tags_json)
                tag_info == VersionSort(VersionProcess(DictKeys(merged), tag_prefix))
            IN  /\ Fetch(Answered("page", tags_json))
                /\ tags_list' = merged
                /\ IF ~tags_url.isNone
                   THEN /\ pending' = tags_url.val
                        /\ pc' = "tags"
                        /\ UNCHANGED result
                   ELSE /\ pc' = "done"
                        /\ result' =
                             IF NoTagInfo(tag_info) THEN PyFalse
                             ELSE PyList(Releases(tag_info, {}, SettingsGet(settings),
                                                  user_repo, merged))
                        /\ UNCHANGED pending
                /\ UNCHANGED raised
    /\ UNCHANGED <<settings, op, url, tag_prefix, prefer_cached, user_repo,
                   branch, repo_json>>

\* download_info, lines 160-163: the repository info names the branch.
RepoFetch ==
    /\ pc = "repo"
    /\ \/ \E e \in FetchErrors :
            /\ Fetch(Failed(e))
            /\ raised' = Raise(e)
            /\ pc' = "done"
            /\ UNCHANGED <<pending, branch>>
       \/ \E repo \in RepoJsons :
            LET main == MainBranchName(repo)
            IN  /\ Fetch(Answered("repo", repo))
                /\ IF main.err # <<>>
                   THEN /\ raised' = Raise(main.err[1])
                        /\ pc' = "done"
                        /\ UNCHANGED <<pending, branch>>
                   ELSE /\ branch' = main.branch
                        /\ pending' = BranchUrl(user_repo, main.branch)
                        /\ pc' = "branch"
                        /\ UNCHANGED raised
    /\ UNCHANGED <<settings, op, url, tag_prefix, prefer_cached, user_repo,
                   tags_list, repo_json, result>>

\* download_info, lines 164-174: the one release of a branch.
BranchFetch ==
    /\ pc = "branch"
    /\ \/ \E e \in FetchErrors :
            /\ Fetch(Failed(e))
            /\ raised' = Raise(e)
            /\ UNCHANGED result
       \/ \E branch_info \in BranchJsons :
            LET timestamp == Timestamp(branch_info.target.date)
            IN  /\ Fetch(Answered("branch", branch_info))
                /\ result' = PyList(<<[url |-> ZipUrl(user_repo, Fmt(branch)),
                                       version |-> PseudoVersion(timestamp),
                                       date |-> timestamp]>>)
                /\ UNCHANGED raised
    /\ pc' = "done"
    /\ UNCHANGED <<settings, op, url, tag_prefix, prefer_cached, user_repo,
                   branch, pending, tags_list, repo_json>>

\* repo_info(url), lines 200-204.
repo_info(u) ==
    LET urb == UserRepoBranch(u)
    IN  /\ pc = "idle"
        /\ op' = "repo_info"
        /\ url' = u
        /\ IF urb[1].isNone
           THEN /\ pc' = "done"
                /\ result' = PyNone
                /\ UNCHANGED <<user_repo, branch, pending>>
           ELSE /\ user_repo' = urb[1].val
                /\ branch' = urb[2]
                /\ pending' = MakeApiUrl(urb[1].val, <<>>)
                /\ pc' = "info"
                /\ result' = Pending
        /\ UNCHANGED <<settings, tag_prefix, prefer_cached, tags_list, repo_json,
                       fetched, responses, raised>>

\* repo_info, lines 205-222, up to the first fetch_json of _readme_url.
InfoFetch ==
    /\ pc = "info"
    /\ \/ \E e \in FetchErrors :
            /\ Fetch(Failed(e))
            /\ raised' = Raise(e)
            /\ pc' = "done"
            /\ UNCHANGED <<pending, branch, repo_json>>
       \/ \E repo \in RepoJsons :
            LET main == IF branch.isNone THEN MainBranchName(repo)
                        ELSE [err |-> <<>>, branch |-> branch]
            IN  /\ Fetch(Answered("repo", repo))
                /\ IF main.err # <<>>
                   THEN /\ raised' = Raise(main.err[1])
                        /\ pc' = "done"
                        /\ UNCHANGED <<pending, branch, repo_json>>
                   ELSE /\ branch' = main.branch
                        /\ repo_json' = repo
                        /\ pending' = ListingUrl(user_repo, main.branch)
                        /\ pc' = "listing"
                        /\ UNCHANGED raised
    /\ UNCHANGED <<settings, op, url, tag_prefix, prefer_cached, user_repo,
                   tags_list, result>>

\* _readme_url(user_repo, branch, prefer_cached), line 296.
_readme_url(ur, br, cached) ==
    /\ pc = "idle"
    /\ op' = "_readme_url"
    /\ user_repo' = ur
    /\ branch' = br
    /\ prefer_cached' = cached
    /\ pending' = ListingUrl(ur, br)
    /\ pc' = "listing"
    /\ UNCHANGED <<settings, url, tag_prefix, tags_list, repo_json, fetched,
                   responses, result, raised>>

\* repo_info, lines 210-224: the record, given the readme.
Metadata(repo, u, ur, readme) ==
    [name |-> repo.name,
     description |-> IF repo.description.isNone \/ repo.description.val = <<>>
                     THEN <<"No description provided">>
                     ELSE repo.description.val,
     homepage |-> IF repo.website.isNone \/ repo.website.val = <<>>
                  THEN u ELSE repo.website.val,
     author |-> IF repo.owner.nickname.isNone THEN repo.owner.username
                ELSE repo.owner.nickname,
     donate |-> None,
     readme |-> readme,
     issues |-> IF repo.has_issues
                THEN Some(<<"https://bitbucket.org/">> \o ur \o <<"/issues">>)
                ELSE None]

\* What the operation returns once _readme_url returned readme.
ReadmeReturns(readme) ==
    IF op = "repo_info" THEN PyDict(Metadata(repo_json, url, user_repo, readme))
    ELSE IF readme.isNone THEN PyNone
    ELSE PyStr(readme.val)

\* _readme_url, lines 298-312: one round of the while loop.
ListingFetch ==
    /\ pc = "listing"
    /\ \/ \E e \in FetchErrors :
            /\ Fetch(Failed(e))
            /\ pc' = "done"
            /\ IF Swallowed(e)
               THEN /\ result' = ReadmeReturns(None)
                    /\ UNCHANGED raised
               ELSE /\ raised' = Raise(e)
                    /\ UNCHANGED result
            /\ UNCHANGED pending
       \/ \E root_dir_info \in Pages(DirValues, MaxEntries,
                                     ListingUrl(user_repo, branch)) :
            LET found == FirstReadme(root_dir_info.values)
                listing_url == NextUrl(root_dir_info)
            IN  /\ Fetch(Answered("page", root_dir_info))
                /\ IF found # <<>>
                   THEN /\ result' = ReadmeReturns(
                                       Some(RawUrl(user_repo, branch, found[1])))
                        /\ pc' = "done"
                        /\ UNCHANGED pending
                   ELSE IF ~listing_url.isNone
                   THEN /\ pending' = listing_url.val
                        /\ pc' = "listing"
                        /\ UNCHANGED result
                   ELSE /\ result' = ReadmeReturns(None)
                        /\ pc' = "done"
                        /\ UNCHANGED pending
                /\ UNCHANGED raised
    /\ UNCHANGED <<settings, op, url, tag_prefix, prefer_cached, user_repo,
                   branch, tags_list, repo_json>>

\* user_info(url), line 237.
user_info(u) ==
    /\ pc = "idle"
    /\ op' = "user_info"
    /\ url' = u
    /\ pc' = "done"
    /\ result' = PyNone
    /\ UNCHANGED <<settings, tag_prefix, prefer_cached, user_repo, branch,
                   pending, tags_list, repo_json, fetched, responses, raised>>

Next ==
    \/ \E u \in Urls, tp \in TagPrefixes : download_info(u, tp)
    \/ TagsFetch
    \/ RepoFetch
    \/ BranchFetch
    \/ \E u \in Urls : repo_info(u)
    \/ InfoFetch
    \/ \E br \in {Some(<<"b">>)}, cached \in BOOLEAN :
          _readme_url(<<"o", "/", "r">>, br, cached)
    \/ ListingFetch
    \/ \E u \in Urls : user_info(u)

Spec == Init /\ [][Next]_vars


(***************************************************************************)
(* Properties.                                                             *)
(***************************************************************************)
Done == pc = "done"
Returned == pc = "done" /\ raised.isNone
TagMode == op = "download_info" /\ ~TagsMatch(url).isNone
BranchMode ==
    op = "download_info" /\ TagsMatch(url).isNone /\ ~UserRepoBranch(url)[1].isNone
LastResponse == responses[Len(responses)]

\* A name of an owner, a repository or a branch in a URL: no slash in it.
IsName(s) == s # <<>> /\ "/" \notin Range(s)

\* https://bitbucket.org/{owner}/{repo}, .../{owner}/{repo}/src/{branch} and
\* .../{owner}/{repo}#tags, each with an optional trailing slash.  The shapes
\* are read generously: the scheme http counts as well, and the slash of the
\* tags shape may stand before or after "#tags".
AcceptedShape(u) ==
    /\ Len(u) >= 5
    /\ u[1] \in {"https", "http"}
    /\ SubSeq(u, 2, 5) = <<"://", "bitbucket", ".", "org">>
    /\ LET p == PathOf(u)
       IN  \E i, j \in 2..(Len(p) + 1) :
             /\ i < j
             /\ p[1] = "/"
             /\ IsName(SubSeq(p, 2, i - 1))
             /\ p[i] = "/"
             /\ IsName(SubSeq(p, i + 1, j - 1))
             /\ LET t == SubSeq(p, j, Len(p))
                IN  \/ t \in {<<>>, <<"/">>}
                    \/ t \in {<<"#", "tags">>, <<"#", "tags", "/">>,
                              <<"/", "#", "tags">>}
                    \/ \E k \in 4..Len(t) :
                         /\ SubSeq(t, 1, 3) = <<"/", "src", "/">>
                         /\ IsName(SubSeq(t, 4, k))
                         /\ SubSeq(t, k + 1, Len(t)) \in {<<>>, <<"/">>}

\* C1: for a URL that is none of the three accepted shapes, the value that
\* download_info and repo_info return is None.  (Violated: the dot of
\* 'bitbucket.org' in the patterns matches any character.)
C1_NoneOutsideShapes ==
    (op \in {"download_info", "repo_info"} /\ Returned /\ ~AcceptedShape(url))
        => result.kind = "None"


\* What version_process and version_sort make of the tags collected.
TagInfoSorted == VersionSort(VersionProcess(DictKeys(tags_list), tag_prefix))

DistinctVersions == {TagInfoSorted[k].version : k \in 1..Len(TagInfoSorted)}

\* The first entry of infos with version v.
FirstWith(infos, v) ==
    CHOOSE k \in 1..Len(infos) :
        infos[k].version = v /\ \A m \in 1..(k - 1) : infos[m].version # v

\* The entries of all pages answered, in the order they came.
RECURSIVE Concat(_)
Concat(ps) ==
    IF ps = <<>> THEN <<>> ELSE Head(ps).json[1].values \o Concat(Tail(ps))

AllValues == Concat(PagesOf(responses))

\* C2: in tag mode the list returned is strictly descending by version, so no
\* two records have one version, and the record of a version is that of the
\* first tag with this version in the descending-sorted sequence.
C2_DescendingFirstWins ==
    (TagMode /\ Returned /\ result.kind = "list") =>
        LET out == result.val
        IN  /\ \A i, j \in 1..Len(out) :
                 i < j => SemVerRank(out[i].version) > SemVerRank(out[j].version)
            /\ \A i \in 1..Len(out) :
                 LET info == TagInfoSorted[FirstWith(TagInfoSorted, out[i].version)]
                     tag == info.prefix \o info.version
                 IN  /\ out[i].url = ZipUrl(user_repo, tag)
                     /\ out[i].date = DictGet(tags_list, tag)

C2_Witness ==
    /\ TagMode /\ Returned /\ result.kind = "list"
    /\ DictKeys(tags_list) = << <<"v", "1.0.0">>, <<"1.0.0">>, <<"v", "2.0.0">> >>
    /\ tag_prefix.isNone
    /\ Len(result.val) = 2
    /\ result.val[2].url = ZipUrl(user_repo, <<"v", "1.0.0">>)

C4_NoReleasesIsFalse ==
    (TagMode /\ Returned) =>
        /\ result.kind \in {"False", "list"}
        /\ result.kind = "list" => result.val # <<>>
        /\ (\A i \in 1..Len(AllValues) :
              VersionInfo(AllValues[i].name, tag_prefix) = <<>>)
             => result.kind = "False"

C4_Witness ==
    /\ TagMode /\ Returned
    /\ AllValues # <<>>
    /\ result.kind = "False"

\* The date of the last entry of values named name.
LastDate(values, name) ==
    LET k == CHOOSE i \in 1..Len(values) :
                 /\ values[i].name = name
                 /\ \A m \in (i + 1)..Len(values) : values[m].name # name
    IN  values[k].date

\* C5: in tag mode the pages are fetched in the order of the server's next
\* links, each once; the walk ends at the first page without a next link and
\* nothing is returned before; the tags resolved are those of all pages, a
\* name on several pages with the timestamp of the last.
C5_PagesInOrder ==
    TagMode =>
        /\ Len(fetched) = Len(responses)
        /\ \A i \in 1..Len(fetched) :
             IF i = 1 THEN fetched[i].url = TagsUrl(user_repo)
             ELSE /\ responses[i - 1].ok
                  /\ ~responses[i - 1].json[1].next.isNone
                  /\ fetched[i].url = responses[i - 1].json[1].next.val
        /\ \A i, j \in 1..Len(fetched) : i # j => fetched[i].url # fetched[j].url
        /\ pc = "tags" =>
             /\ result = Pending
             /\ responses # <<>> => ~LastResponse.json[1].next.isNone
        /\ Returned =>
             /\ LastResponse.ok
             /\ LastResponse.json[1].next.isNone
             /\ Range(DictKeys(tags_list)) = {AllValues[i].name : i \in 1..Len(AllValues)}
             /\ \A i \in 1..Len(tags_list) :
                  tags_list[i][2] = Timestamp(LastDate(AllValues, tags_list[i][1]))
             /\ \A i \in 1..Len(AllValues) :
                  LET info == VersionInfo(AllValues[i].name, tag_prefix)
                  IN  info # <<>> =>
                        /\ result.kind = "list"
                        /\ SemVerRank(result.val[1].version)
                             >= SemVerRank(info[1].version)

C5_Witness ==
    /\ TagMode /\ Returned
    /\ Len(fetched) = 2
    /\ \E i \in 1..Len(responses[1].json[1].values),
          j \in 1..Len(responses[2].json[1].values) :
          /\ responses[1].json[1].values[i].name = responses[2].json[1].values[j].name
          /\ responses[1].json[1].values[i].date # responses[2].json[1].values[j].date
    /\ result.kind = "list"


\* A fetch_json of the listing loop of _readme_url failed last.
ListingFailed ==
    /\ Done
    /\ responses # <<>>
    /\ ~LastResponse.ok
    /\ \/ op = "_readme_url"
       \/ op = "repo_info" /\ Len(responses) >= 2

\* The readme an operation that went through _readme_url returned.
ReadmeReturned ==
    IF op = "repo_info" THEN result.val[1].readme
    ELSE IF result.kind = "None" THEN None
    ELSE Some(result.val)

\* C6: when a listing fetch of _readme_url, on the first or a later page,
\* fails with a DownloaderException whose message holds the 404 signature,
\* _readme_url returns None; with any other error, this error reaches the
\* caller as it is and nothing is returned.
C6_Readme404 ==
    ListingFailed =>
        LET err == LastResponse.err[1]
        IN  IF err.type = "DownloaderException"
               /\ \E i \in 1..Len(err.msg) : err.msg[i] = "HTTP error 404"
            THEN /\ raised.isNone
                 /\ result.kind = IF op = "repo_info" THEN "dict" ELSE "None"
                 /\ ReadmeReturned.isNone
            ELSE /\ ~raised.isNone
                 /\ raised.val = err
                 /\ result = Pending

C6_Witness ==
    /\ ListingFailed
    /\ op = "_readme_url"
    /\ Len(responses) = 2
    /\ responses[1].ok
    /\ responses[1].json[1].values # <<>>
    /\ LastResponse.err[1].type = "DownloaderException"
    /\ Returned
    /\ result.kind = "None"

\* The path, in lower case, is one of the nine readme filenames.
LooksLikeReadme(path) ==
    \E k \in 1..9 : Lower(path) = _readme_filenames[k]

\* C7: _readme_url returns the raw-content URL of the first entry, in listing
\* order across the pages, whose path in lower case is a readme filename,
\* whatever the place of the filename in the list; the URL holds the path as
\* the entry spells it; when no entry matches, it returns None.
C7_FirstReadmeInListingOrder ==
    (/\ Returned
     /\ op = "_readme_url" \/ (op = "repo_info" /\ result.kind = "dict")
     /\ \A i \in 1..Len(responses) : responses[i].ok) =>
        LET hits == {i \in 1..Len(AllValues) : LooksLikeReadme(AllValues[i].path)}
        IN  IF hits = {} THEN ReadmeReturned.isNone
            ELSE LET first == CHOOSE i \in hits : \A k \in hits : i <= k
                 IN  /\ ~ReadmeReturned.isNone
                     /\ ReadmeReturned.val =
                          <<"https://bitbucket.org/">> \o user_repo \o <<"/raw/">>
                             \o (IF branch.isNone THEN <<"None">> ELSE branch.val)
                             \o <<"/">> \o AllValues[first].path

C7_Witness ==
    /\ op = "_readme_url" /\ Returned
    /\ Len(responses) = 1
    /\ responses[1].ok
    /\ responses[1].json[1].values =
         <<[path |-> <<"readme", ".rst">>], [path |-> <<"README", ".MD">>]>>
    /\ result = PyStr(<<"https://bitbucket.org/", "o", "/", "r", "/raw/", "b", "/",
                        "readme", ".rst">>)

\* The fetch_json calls so far, by what they ask for.
FetchedUrls == [i \in 1..Len(fetched) |-> fetched[i].url]

\* C8: in branch mode, for a URL without a branch download_info fetches the
\* repository info once, before the branch info, and then the info of the
\* default branch this answer names; for a URL with a branch it fetches the
\* info of that branch and no repository info.  It returns a list of one
\* release.
C8_BranchModeFetches ==
    BranchMode =>
        LET explicit == UserRepoBranch(url)[2]
            repo_url == MakeApiUrl(user_repo, <<>>)
        IN  /\ ~explicit.isNone =>
                 FetchedUrls \in {<<>>, <<BranchUrl(user_repo, explicit)>>}
            /\ explicit.isNone =>
                 /\ Len(fetched) <= 2
                 /\ Len(fetched) >= 1 => fetched[1].url = repo_url
                 /\ Len(fetched) = 2 =>
                      /\ responses[1].ok
                      /\ fetched[2].url # repo_url
                      /\ LET mb == responses[1].json[1].mainbranch
                         IN  (mb.hasName /\ ~mb.name.isNone) =>
                               fetched[2].url = BranchUrl(user_repo, mb.name)
            /\ (responses # <<>> /\ LastResponse.kind = "branch") <=> Returned
            /\ Returned =>
                 /\ result.kind = "list"
                 /\ Len(result.val) = 1
                 /\ fetched[Len(fetched)].url = BranchUrl(user_repo, branch)

C8_Witness ==
    /\ BranchMode /\ Returned
    /\ UserRepoBranch(url)[2].isNone
    /\ Len(fetched) = 2
    /\ fetched[2].url = BranchUrl(user_repo, Some(<<"main">>))
    /\ result.kind = "list"

\* The repository info names no default branch: mainbranch is missing, is
\* null, or has no name.
NoDefaultBranch(repo) ==
    \/ ~repo.mainbranch.present
    \/ repo.mainbranch.isNull
    \/ ~repo.mainbranch.hasName

\* C9: when the URL names no branch and the repository info names no default
\* branch, download_info and repo_info go on with the branch master and do
\* not fail.  (Violated: a missing or null mainbranch raises.)
C9_MasterFallback ==
    (/\ op \in {"download_info", "repo_info"}
     /\ TagsMatch(url).isNone \/ op = "repo_info"
     /\ ~UserRepoBranch(url)[1].isNone
     /\ UserRepoBranch(url)[2].isNone
     /\ Len(responses) = 1
     /\ responses[1].ok
     /\ NoDefaultBranch(responses[1].json[1])) =>
        /\ raised.isNone
        /\ branch = Some(<<"master">>)

\* C10: when fetch_json fails on a page of the tag walk, also after pages that
\* were answered, there is no further fetch, the failure reaches the caller
\* as it is and no list of releases is returned.
C10_TagWalkFailure ==
    TagMode =>
        \A i \in 1..Len(responses) :
            ~responses[i].ok =>
                /\ i = Len(responses)
                /\ Done
                /\ ~raised.isNone
                /\ raised.val = responses[i].err[1]
                /\ result = Pending

C10_Witness ==
    /\ TagMode /\ Done
    /\ Len(responses) = 2
    /\ responses[1].ok
    /\ responses[1].json[1].values # <<>>
    /\ ~responses[2].ok
    /\ ~raised.isNone
    /\ result = Pending

=============================================================================
